---------------------------- MODULE Spec2Model ----------------------------
(***************************************************************************)
(* A model of the f16_hid driver library (src/src/lib.rs) and of the loop  *)
(* of its demonstration program (src/examples/computer_stats.rs).          *)
(*                                                                         *)
(* Four specifications share the variables:                                *)
(*   SpecBitmaps  the two framebuffers, Bitmap8 and Bitmap, under calls of *)
(*                fill, draw_point and draw_box;                           *)
(*   SpecMono     the Bitmap alone, under sequences of its calls;          *)
(*   SpecExec     a LedMatrix transport under arbitrary calls of execute   *)
(*                and reconnect;                                           *)
(*   SpecMain     the program of computer_stats.rs: two transports, the    *)
(*                start-up commands and the display loop.                  *)
(*                                                                         *)
(* Byte arrays are sequences; the source's index i is the model's i + 1.   *)
(* A Rust panic ends the process: fault names its cause and no action is   *)
(* enabled afterwards.                                                     *)
(***************************************************************************)
EXTENDS Integers, Sequences, FiniteSets, TLC

\* ------------------------------------------------------------- constants

DRAW_COMMAND_LENGTH == 39
MAX_COMMAND_LENGTH == 42
DISPLAY_WIDTH == 9
DISPLAY_HEIGHT == 34
BG_VALUE == 2

\* ---------------------------------------------------------------- bounds

\* Serial-port handles a transport may open over a run (new counts as one).
MaxOpens == 2

\* Framebuffer calls made in one run of SpecBitmaps.
MaxOps == 1

\* Bitmap calls made in one run of SpecMono.
MaxMonoOps == 2

VARIABLES
    image,      \* Bitmap8.data: DISPLAY_HEIGHT * DISPLAY_WIDTH bytes
    bitmap,     \* Bitmap.data: DRAW_COMMAND_LENGTH bytes
    ops,        \* framebuffer calls the run may still make
    last,       \* the last framebuffer call: its arguments, result, data before
    prev,       \* the framebuffer call before it
    port,       \* LedMatrix.port of each transport: <<>> is None, <<h>> is Some(h)
    opens,      \* handles each transport has opened so far
    pc,         \* position of the calling program
    cur,        \* the transport the current call is on
    col,        \* display_bitmap's loop variable y
    err,        \* the error kind handed to handle_serial_error
    written,    \* writes handed to the port by the caller's current call
    call,       \* the caller's current (or last) call
    lastExec,   \* the last execute call: command, outcome, result
    handled,    \* the last handle_serial_error call
    fault       \* "" or the cause of the panic that ended the process

bitmapVars == <<image, bitmap, ops, last, prev>>
portVars == <<port, opens>>
callVars == <<pc, cur, col, err, written, call, lastExec, handled>>
vars == <<image, bitmap, ops, last, prev, port, opens, pc, cur, col, err,
          written, call, lastExec, handled, fault>>

\* ----------------------------------------------------------------- bytes

\* Arrays are built as explicit tuples (SubSeq makes one of a function).
Zeros(n) == SubSeq([i \in 1..n |-> 0], 1, n)

\* bit k of byte b
BitOf(b, k) == (b \div (2 ^ k)) % 2

RECURSIVE OrBits(_, _, _)
OrBits(a, b, k) ==
    IF k = 8 THEN 0
    ELSE (IF BitOf(a, k) = 1 \/ BitOf(b, k) = 1 THEN 2 ^ k ELSE 0)
         + OrBits(a, b, k + 1)

RECURSIVE AndBits(_, _, _)
AndBits(a, b, k) ==
    IF k = 8 THEN 0
    ELSE (IF BitOf(a, k) = 1 /\ BitOf(b, k) = 1 THEN 2 ^ k ELSE 0)
         + AndBits(a, b, k + 1)

RECURSIVE XorBits(_, _, _)
XorBits(a, b, k) ==
    IF k = 8 THEN 0
    ELSE (IF BitOf(a, k) # BitOf(b, k) THEN 2 ^ k ELSE 0)
         + XorBits(a, b, k + 1)

\* u8 operators |, &, ^ and 1 << n
BitOr(a, b) == OrBits(a, b, 0)
BitAnd(a, b) == AndBits(a, b, 0)
BitXor(a, b) == XorBits(a, b, 0)
Shl1(n) == (2 ^ n) % 256

\* ------------------------------------------------------- Bitmap8 (lib.rs)

Bitmap8New == Zeros(DISPLAY_HEIGHT * DISPLAY_WIDTH)

Bitmap8Fill(data, value) ==
    SubSeq([i \in 1..Len(data) |-> value], 1, Len(data))

\* A mutation of Location8: row-major addressing.
Location8RowMajor(x, y) == y * DISPLAY_WIDTH + x

\* let location = x * DISPLAY_HEIGHT + y;
Location8(x, y) == x * DISPLAY_HEIGHT + y

\* draw_point: the data afterwards and whether Ok(()) was returned.
Bitmap8DrawPoint(data, x, y, value) ==
    IF x >= DISPLAY_WIDTH THEN [data |-> data, ok |-> FALSE]
    ELSE IF y >= DISPLAY_HEIGHT THEN [data |-> data, ok |-> FALSE]
    ELSE [data |-> [data EXCEPT ![Location8(x, y) + 1] = value], ok |-> TRUE]

\* for x in x_min..=x_max { self.data[x * DISPLAY_HEIGHT + y] = value }
\* ok is FALSE when an index is out of the array's bounds (a panic); the
\* data holds what was written before it.
RECURSIVE FillRow(_, _, _, _, _)
FillRow(data, x, x_max, y, value) ==
    IF x > x_max THEN [data |-> data, ok |-> TRUE]
    ELSE LET index == x * DISPLAY_HEIGHT + y
         IN  IF index >= Len(data) THEN [data |-> data, ok |-> FALSE]
             ELSE FillRow([data EXCEPT ![index + 1] = value],
                          x + 1, x_max, y, value)

\* for y in y_min..=y_max { for x in x_min..=x_max { ... } }
RECURSIVE FillRows(_, _, _, _, _, _)
FillRows(data, y, y_max, x_min, x_max, value) ==
    IF y > y_max THEN [data |-> data, ok |-> TRUE]
    ELSE LET row == FillRow(data, x_min, x_max, y, value)
         IN  IF ~row.ok THEN row
             ELSE FillRows(row.data, y + 1, y_max, x_min, x_max, value)

Min(a, b) == IF a <= b THEN a ELSE b
Max(a, b) == IF a >= b THEN a ELSE b

\* A mutation of Bitmap8DrawBox: the corners are not normalised.
Bitmap8DrawBoxUnordered(data, x1, y1, x2, y2, value) ==
    FillRows(data, y1, y2, x1, x2, value)

\* draw_box: the data afterwards; ok is FALSE when the call panicked.
Bitmap8DrawBox(data, x1, y1, x2, y2, value) ==
    LET x_min == Min(x1, x2)
        x_max == Max(x1, x2)
        y_min == Min(y1, y2)
        y_max == Max(y1, y2)
    IN  FillRows(data, y_min, y_max, x_min, x_max, value)

\* -------------------------------------------------------- Bitmap (lib.rs)

BitmapNew == Zeros(DRAW_COMMAND_LENGTH)

BitmapFill(data, value) ==
    SubSeq([i \in 1..Len(data) |-> value], 1, Len(data))

\* A mutation of ClearBit: the mask is not inverted.
ClearBitNoInvert(byte, bitmask) == BitAnd(byte, bitmask)

\* self.data[byte_index] &= bitmask ^ 0xff;
ClearBit(byte, bitmask) == BitAnd(byte, BitXor(bitmask, 255))

\* self.data[byte_index] |= bitmask;
SetBit(byte, bitmask) == BitOr(byte, bitmask)

\* draw_point: the data afterwards and whether Ok(()) was returned.
BitmapDrawPoint(data, x, y, value) ==
    IF x >= DISPLAY_WIDTH THEN [data |-> data, ok |-> FALSE]
    ELSE IF y >= DISPLAY_HEIGHT THEN [data |-> data, ok |-> FALSE]
    ELSE LET location == y + (x * DISPLAY_HEIGHT)
             byte_index == location \div 8
             bitmask == Shl1(location % 8)
             byte == data[byte_index + 1]
         IN  [data |-> [data EXCEPT ![byte_index + 1] =
                            IF value THEN SetBit(byte, bitmask)
                            ELSE ClearBit(byte, bitmask)],
              ok |-> TRUE]

\* ------------------------------------------ draw_vu_meter (computer_stats)

\* The bar of one CPU; index is the position in values.
RECURSIVE DrawBars(_, _, _)
DrawBars(data, values, index) ==
    IF index > Len(values) THEN [data |-> data, ok |-> TRUE]
    ELSE LET value == values[index]
             col_start == DISPLAY_HEIGHT - 2 - ((17 * value) \div 100)
             col_end == DISPLAY_HEIGHT - 2
             i == index - 1
             x == IF i > 3 THEN i + 1 ELSE i
             bar == Bitmap8DrawBox(data, x, col_start, x, col_end, 20)
         IN  IF ~bar.ok THEN bar ELSE DrawBars(bar.data, values, index + 1)

DrawVuMeter(data, values) ==
    LET b0 == Bitmap8Fill(data, BG_VALUE)
        b1 == Bitmap8DrawBox(b0, 0, DISPLAY_HEIGHT - 20, DISPLAY_WIDTH - 1,
                             DISPLAY_HEIGHT - 1, 0).data
        b2 == Bitmap8DrawBox(b1, 0, DISPLAY_HEIGHT - 19, DISPLAY_WIDTH - 1,
                             DISPLAY_HEIGHT - 2, BG_VALUE).data
        b3 == Bitmap8DrawBox(b2, DISPLAY_WIDTH \div 2, DISPLAY_HEIGHT - 19,
                             DISPLAY_WIDTH \div 2, DISPLAY_HEIGHT - 2, 0).data
    IN  DrawBars(b3, values, 1).data

\* CPU loads of eight cores, as percentages.
SampleLoads == { <<0, 0, 0, 0, 0, 0, 0, 0>>,
                 <<100, 50, 25, 0, 99, 12, 6, 75>> }


\* ------------------------------------------- Patterns, Command (lib.rs)

\* data[i] = v, with the source's index
Put(data, i, v) == [data EXCEPT ![i + 1] = v]

\* data[from..to].copy_from_slice(src): ok is FALSE when the lengths differ
\* (a panic).
CopyFromSlice(data, from, to, src) ==
    IF Len(src) # to - from THEN [data |-> data, ok |-> FALSE]
    ELSE [data |-> SubSeq(data, 1, from) \o src
                      \o SubSeq(data, to + 1, Len(data)),
          ok |-> TRUE]

PatternNames == {"Percentage", "Gradient", "DoubleGradient", "DisplayLotus",
                 "ZigZag", "FullBrightness", "DisplayPanic", "DisplayLotus2"}

\* A mutation of PatternsPack: the percentage is stored in the opcode's byte.
PatternsPackValueFirst(pattern, value, data) ==
    IF pattern = "Percentage" THEN Put(data, 0, value)
    ELSE Put(data, 0, CASE pattern = "Gradient" -> 1
                        [] pattern = "DoubleGradient" -> 2
                        [] pattern = "DisplayLotus" -> 3
                        [] pattern = "ZigZag" -> 4
                        [] pattern = "FullBrightness" -> 5
                        [] pattern = "DisplayPanic" -> 6
                        [] pattern = "DisplayLotus2" -> 7)

\* Patterns::pack on the two-byte slice data; value is Percentage's payload.
PatternsPack(pattern, value, data) ==
    IF pattern = "Percentage" THEN Put(Put(data, 0, 0), 1, value)
    ELSE Put(data, 0, CASE pattern = "Gradient" -> 1
                        [] pattern = "DoubleGradient" -> 2
                        [] pattern = "DisplayLotus" -> 3
                        [] pattern = "ZigZag" -> 4
                        [] pattern = "FullBrightness" -> 5
                        [] pattern = "DisplayPanic" -> 6
                        [] pattern = "DisplayLotus2" -> 7)

\* A command: op is the variant, the other fields its payload.
NoCmd == [op |-> "none", level |-> 0, flag |-> FALSE, pattern |-> "",
          value |-> 0, index |-> 0, data |-> <<>>]
Brightness(x) == [NoCmd EXCEPT !.op = "Brightness", !.level = x]
Pattern(p, v) == [NoCmd EXCEPT !.op = "Pattern", !.pattern = p, !.value = v]
Sleep(b) == [NoCmd EXCEPT !.op = "Sleep", !.flag = b]
Draw(b) == [NoCmd EXCEPT !.op = "Draw", !.data = b]
StageColumnBuffer(i, v) ==
    [NoCmd EXCEPT !.op = "StageColumnBuffer", !.index = i, !.data = v]
Plain(op) == [NoCmd EXCEPT !.op = op]

\* A mutation of PackStageColumnBuffer: the column data starts one byte late.
PackStageColumnBufferShifted(index, value, data) ==
    IF index > DISPLAY_WIDTH THEN [data |-> data, ok |-> FALSE]
    ELSE CopyFromSlice(Put(Put(data, 0, 7), 1, index),
                       3, DISPLAY_HEIGHT + 3, value)

\* The StageColumnBuffer arm of Command::pack; ok is FALSE on a panic.
PackStageColumnBuffer(index, value, data) ==
    IF index > DISPLAY_WIDTH THEN [data |-> data, ok |-> FALSE]
    ELSE CopyFromSlice(Put(Put(data, 0, 7), 1, index),
                       2, DISPLAY_HEIGHT + 2, value)

\* Command::pack on data = buffer[2..]; ok is FALSE on a panic.
CommandPack(cmd, data) ==
    CASE cmd.op = "Brightness" ->
           [data |-> Put(Put(data, 0, 0), 1, cmd.level), ok |-> TRUE]
      [] cmd.op = "Pattern" ->
           LET d == Put(data, 0, 1)
               packed == PatternsPack(cmd.pattern, cmd.value, SubSeq(d, 2, 3))
           IN  [data |-> Put(Put(d, 1, packed[1]), 2, packed[2]), ok |-> TRUE]
      [] cmd.op = "Bootloader" -> [data |-> Put(data, 0, 2), ok |-> TRUE]
      [] cmd.op = "Sleep" ->
           [data |-> Put(Put(data, 0, 3), 1, IF cmd.flag THEN 1 ELSE 0),
            ok |-> TRUE]
      [] cmd.op = "Animate" -> [data |-> Put(data, 0, 4), ok |-> TRUE]
      [] cmd.op = "Panic" -> [data |-> Put(data, 0, 5), ok |-> TRUE]
      [] cmd.op = "Draw" -> CopyFromSlice(Put(data, 0, 6), 1, 40, cmd.data)
      [] cmd.op = "StageColumnBuffer" ->
           PackStageColumnBuffer(cmd.index, cmd.data, data)
      [] cmd.op = "DrawBuffer" -> [data |-> Put(data, 0, 8), ok |-> TRUE]
      [] cmd.op = "Version" -> [data |-> Put(data, 0, 32), ok |-> TRUE]

\* ------------------------------------------------------ LedMatrix (lib.rs)

None == <<>>
Some(h) == <<h>>

\* What the port's write returns: Ok(n) or Err of a kind.
Ok(n) == [ok |-> TRUE, n |-> n, kind |-> ""]
Err(kind) == [ok |-> FALSE, n |-> 0, kind |-> kind]
WriteResults == {Ok(MAX_COMMAND_LENGTH), Ok(17), Err("TimedOut"),
                 Err("BrokenPipe"), Err("Other")}

\* LedMatrix::execute on a transport whose port is p, the write returning w:
\* the frames handed to the port, and the result or the panic.
Execute(p, cmd, w) ==
    LET buffer0 == Put(Put(Zeros(MAX_COMMAND_LENGTH), 0, 50), 1, 172)
        packed == CommandPack(cmd, SubSeq(buffer0, 3, MAX_COMMAND_LENGTH))
        buffer == SubSeq(buffer0, 1, 2) \o packed.data
    IN  IF ~packed.ok
        THEN [outcome |-> "panic", fault |-> "pack", frames |-> <<>>,
              ret |-> Err("")]
        ELSE IF p = None
        THEN [outcome |-> "panic", fault |-> "unopened_port", frames |-> <<>>,
              ret |-> Err("")]
        ELSE [outcome |-> "ret", fault |-> "", frames |-> <<buffer>>,
              ret |-> w]

\* ------------------------------------------------ framebuffer calls

Matrices == {"left", "right"}

NoCall == [obj |-> "none", op |-> "none", x |-> 0, y |-> 0, x2 |-> 0,
           y2 |-> 0, v |-> 0, b |-> FALSE, ok |-> TRUE, pre |-> <<>>]

NoExec == [m |-> "none", cmd |-> NoCmd, port |-> None, outcome |-> "none",
           ret |-> Err("")]

NoHandled == [m |-> "none", kind |-> "", before |-> None, reconnects |-> 0,
              done |-> FALSE]

\* The transport side at rest: both ports opened by LedMatrix::new.
TransportIdle ==
    /\ port = [m \in Matrices |-> Some(1)]
    /\ opens = [m \in Matrices |-> 1]
    /\ cur = "left"
    /\ col = 0
    /\ err = ""
    /\ written = <<>>
    /\ call = "none"
    /\ lastExec = NoExec
    /\ handled = NoHandled
    /\ fault = ""

\* The bitmap of tests::draw.
TestDrawBitmap ==
    LET p1 == BitmapDrawPoint(BitmapNew, 0, 0, TRUE).data
        p2 == BitmapDrawPoint(p1, 4, 0, TRUE).data
        p3 == BitmapDrawPoint(p2, 4, 4, TRUE).data
    IN  BitmapDrawPoint(p3, 0, 4, TRUE).data

\* Framebuffers the calls start from: each is what calls of the library
\* produce from new().
StartImages == {Bitmap8New,
                DrawVuMeter(Bitmap8New, <<100, 50, 25, 0, 99, 12, 6, 75>>)}
StartBitmaps == {BitmapNew, TestDrawBitmap}

\* Arguments of the calls: inside, on and past the display's edges.
PointXs == {0, 4, DISPLAY_WIDTH - 1, DISPLAY_WIDTH}
PointYs == {0, DISPLAY_HEIGHT - 1, DISPLAY_HEIGHT}
BoxXs == {0, DISPLAY_WIDTH - 1, DISPLAY_WIDTH}
BoxYs == {1, DISPLAY_HEIGHT - 1, DISPLAY_HEIGHT}
PixelValues == {7, 255}
BoxValues == {7}

InitBitmaps ==
    /\ image \in StartImages
    /\ bitmap \in StartBitmaps
    /\ ops = MaxOps
    /\ last = NoCall
    /\ prev = NoCall
    /\ pc = "bitmaps"
    /\ TransportIdle

InitMono ==
    /\ image = Bitmap8New
    /\ bitmap \in StartBitmaps
    /\ ops = MaxMonoOps
    /\ last = NoCall
    /\ prev = NoCall
    /\ pc = "bitmaps"
    /\ TransportIdle

\* What every framebuffer call does besides changing its buffer.
Called(rec, ok) ==
    /\ ops' = ops - 1
    /\ prev' = last
    /\ last' = rec
    /\ fault' = IF ok THEN "" ELSE "index_out_of_bounds"
    /\ UNCHANGED <<portVars, callVars>>

CanCall == pc = "bitmaps" /\ fault = "" /\ ops > 0

Bitmap8FillCall ==
    /\ CanCall
    /\ \E value \in PixelValues :
        /\ image' = Bitmap8Fill(image, value)
        /\ Called([NoCall EXCEPT !.obj = "Bitmap8", !.op = "fill",
                                 !.v = value, !.pre = image], TRUE)
    /\ UNCHANGED bitmap

Bitmap8DrawPointCall ==
    /\ CanCall
    /\ \E x \in PointXs, y \in PointYs, value \in PixelValues :
        LET r == Bitmap8DrawPoint(image, x, y, value)
        IN  /\ image' = r.data
            /\ Called([NoCall EXCEPT !.obj = "Bitmap8", !.op = "draw_point",
                                     !.x = x, !.y = y, !.v = value,
                                     !.ok = r.ok, !.pre = image], TRUE)
    /\ UNCHANGED bitmap

Bitmap8DrawBoxCall ==
    /\ CanCall
    /\ \E x1 \in BoxXs, x2 \in BoxXs, y1 \in BoxYs, y2 \in BoxYs,
          value \in BoxValues :
        LET r == Bitmap8DrawBox(image, x1, y1, x2, y2, value)
        IN  /\ image' = r.data
            /\ Called([NoCall EXCEPT !.obj = "Bitmap8", !.op = "draw_box",
                                     !.x = x1, !.y = y1, !.x2 = x2, !.y2 = y2,
                                     !.v = value, !.ok = r.ok, !.pre = image],
                      r.ok)
    /\ UNCHANGED bitmap

BitmapFillCall ==
    /\ CanCall
    /\ \E value \in PixelValues :
        /\ bitmap' = BitmapFill(bitmap, value)
        /\ Called([NoCall EXCEPT !.obj = "Bitmap", !.op = "fill",
                                 !.v = value, !.pre = bitmap], TRUE)
    /\ UNCHANGED image

BitmapDrawPointCall ==
    /\ CanCall
    /\ \E x \in PointXs, y \in PointYs, value \in BOOLEAN :
        LET r == BitmapDrawPoint(bitmap, x, y, value)
        IN  /\ bitmap' = r.data
            /\ Called([NoCall EXCEPT !.obj = "Bitmap", !.op = "draw_point",
                                     !.x = x, !.y = y, !.b = value,
                                     !.ok = r.ok, !.pre = bitmap], TRUE)
    /\ UNCHANGED image

NextBitmaps ==
    \/ Bitmap8FillCall
    \/ Bitmap8DrawPointCall
    \/ Bitmap8DrawBoxCall
    \/ BitmapFillCall
    \/ BitmapDrawPointCall

SpecBitmaps == InitBitmaps /\ [][NextBitmaps]_vars

NextMono ==
    \/ BitmapFillCall
    \/ BitmapDrawPointCall

SpecMono == InitMono /\ [][NextMono]_vars


\* ------------------------------------------- calls on the transports

Other(m) == IF m = "left" THEN "right" ELSE "left"

\* A mutation of ColumnSlice: the columns are taken DISPLAY_WIDTH apart.
ColumnSliceByWidth(data, y) ==
    SubSeq(data, y * DISPLAY_WIDTH + 1, y * DISPLAY_WIDTH + DISPLAY_HEIGHT)

\* &bitmap.data()[col_start..col_end] of display_bitmap
ColumnSlice(data, y) ==
    LET col_start == y * DISPLAY_HEIGHT
        col_end == col_start + DISPLAY_HEIGHT
    IN  SubSeq(data, col_start + 1, col_end)

\* Commands the callers of SpecExec pass to execute.
Levels == {64, 255}
Percentages == {57}
SampleImage == DrawVuMeter(Bitmap8New, <<100, 50, 25, 0, 99, 12, 6, 75>>)
ColumnIndexes == {3, DISPLAY_WIDTH - 1, DISPLAY_WIDTH, DISPLAY_WIDTH + 1}
Slices == {ColumnSlice(SampleImage, 0), ColumnSlice(SampleImage, 4),
           SubSeq(SampleImage, 1, DISPLAY_HEIGHT - 1)}
Commands ==
    {Brightness(x) : x \in Levels}
    \cup {Pattern("Percentage", v) : v \in Percentages}
    \cup {Pattern(q, 0) : q \in PatternNames \ {"Percentage"}}
    \cup {Sleep(b) : b \in BOOLEAN}
    \cup {Draw(b) : b \in {TestDrawBitmap, BitmapFill(BitmapNew, 255)}}
    \cup {StageColumnBuffer(i, v) : i \in ColumnIndexes, v \in Slices}
    \cup {Plain(op) : op \in {"Bootloader", "Animate", "Panic", "DrawBuffer",
                              "Version"}}

\* The record of the frames an execute call handed to the port (one or
\* none), each with whether the write returned Ok.
Handed(frames, w) ==
    IF frames = <<>> THEN <<>>
    ELSE <<[frame |-> frames[1], ok |-> w.ok]>>

InitExec ==
    /\ image = Bitmap8New
    /\ bitmap = BitmapNew
    /\ ops = 0
    /\ last = NoCall
    /\ prev = NoCall
    /\ pc = "idle"
    /\ TransportIdle

\* matrix.execute(command) by a caller of the library.
ApiExecute(m) ==
    /\ pc = "idle" /\ fault = ""
    /\ \E cmd \in Commands, w \in WriteResults :
        LET r == Execute(port[m], cmd, w)
        IN  /\ written' = Handed(r.frames, w)
            /\ lastExec' = [m |-> m, cmd |-> cmd, port |-> port[m],
                            outcome |-> r.outcome, ret |-> r.ret]
            /\ fault' = r.fault
    /\ cur' = m
    /\ call' = "execute"
    /\ UNCHANGED <<bitmapVars, portVars, pc, col, err, handled>>

\* reconnect, first statement: self.port = None;
ReconnectClose(m) ==
    /\ port' = [port EXCEPT ![m] = None]
    /\ UNCHANGED opens

\* reconnect, second statement: self.port = Some(serialport::new(..).open()?);
\* opened tells whether open() succeeded.
ReconnectOpen(m, opened) ==
    IF opened
    THEN /\ opens[m] < MaxOpens
         /\ opens' = [opens EXCEPT ![m] = opens[m] + 1]
         /\ port' = [port EXCEPT ![m] = Some(opens[m] + 1)]
    ELSE UNCHANGED <<port, opens>>

\* matrix.reconnect() by a caller of the library, up to the open.
ApiReconnectBegin(m) ==
    /\ pc = "idle" /\ fault = ""
    /\ ReconnectClose(m)
    /\ pc' = "reconnecting"
    /\ cur' = m
    /\ call' = "reconnect"
    /\ written' = <<>>
    /\ UNCHANGED <<bitmapVars, col, err, lastExec, handled, fault>>

\* ... and its return, Ok or the open's error.
ApiReconnectEnd ==
    /\ pc = "reconnecting" /\ fault = ""
    /\ \E opened \in BOOLEAN : ReconnectOpen(cur, opened)
    /\ pc' = "idle"
    /\ UNCHANGED <<bitmapVars, cur, col, err, written, call, lastExec,
                   handled, fault>>

\* SpecExec drives one transport.
NextExec ==
    \/ ApiExecute("left")
    \/ ApiReconnectBegin("left")
    \/ ApiReconnectEnd

SpecExec == InitExec /\ [][NextExec]_vars

\* ------------------------------------------- main (computer_stats.rs)

\* Both LedMatrix::new calls have succeeded.
InitMain ==
    /\ image = Bitmap8New
    /\ bitmap = BitmapNew
    /\ ops = 0
    /\ last = NoCall
    /\ prev = NoCall
    /\ pc = "init_left"
    /\ TransportIdle

\* matrix_left.execute(command.clone()).expect(..), then the same on
\* matrix_right: an Err panics.
MainStartup ==
    /\ pc \in {"init_left", "init_right"} /\ fault = ""
    /\ \E w \in WriteResults :
        LET m == IF pc = "init_left" THEN "left" ELSE "right"
            cmd == Brightness(255)
            r == Execute(port[m], cmd, w)
        IN  /\ written' = Handed(r.frames, w)
            /\ lastExec' = [m |-> m, cmd |-> cmd, port |-> port[m],
                            outcome |-> r.outcome, ret |-> r.ret]
            /\ fault' = IF r.outcome = "panic" THEN r.fault
                        ELSE IF ~r.ret.ok THEN "expect" ELSE ""
            /\ cur' = m
    /\ call' = "execute"
    /\ pc' = IF pc = "init_left" THEN "init_right" ELSE "draw"
    /\ UNCHANGED <<bitmapVars, portVars, col, err, handled>>

\* The loop up to the first execute of display_bitmap, for the left matrix
\* and then for the right: the CPU loads are read and draw_vu_meter stages
\* them in the image.
MainDraw ==
    /\ pc = "draw" /\ fault = ""
    /\ \E loads \in SampleLoads : image' = DrawVuMeter(image, loads)
    /\ cur' = Other(cur)
    /\ call' = "display_bitmap"
    /\ written' = <<>>
    /\ col' = 0
    /\ pc' = "send"
    /\ UNCHANGED <<bitmap, ops, last, prev, portVars, err, lastExec, handled,
                   fault>>

\* One matrix.execute(command)? of display_bitmap: StageColumnBuffer for
\* column col, or DrawBuffer after the last column.
MainSend ==
    /\ pc = "send" /\ fault = ""
    /\ \E w \in WriteResults :
        LET cmd == IF col < DISPLAY_WIDTH
                   THEN StageColumnBuffer(col, ColumnSlice(image, col))
                   ELSE Plain("DrawBuffer")
            r == Execute(port[cur], cmd, w)
        IN  /\ written' = written \o Handed(r.frames, w)
            /\ lastExec' = [m |-> cur, cmd |-> cmd, port |-> port[cur],
                            outcome |-> r.outcome, ret |-> r.ret]
            /\ fault' = r.fault
            /\ IF r.outcome = "panic" THEN UNCHANGED <<pc, col, err>>
               ELSE IF ~r.ret.ok
               THEN pc' = "handle" /\ err' = r.ret.kind /\ UNCHANGED col
               ELSE IF col < DISPLAY_WIDTH
               THEN col' = col + 1 /\ UNCHANGED <<pc, err>>
               ELSE pc' = "draw" /\ UNCHANGED <<col, err>>
    /\ UNCHANGED <<bitmapVars, portVars, cur, call, handled>>

\* A mutation of HandlerArm: a timeout reconnects too.
HandlerArmAlwaysReconnect(kind) ==
    CASE kind = "TimedOut" -> "reconnect"
      [] kind = "BrokenPipe" -> "reconnect"
      [] OTHER -> "panic"

\* match error.kind() of handle_serial_error
HandlerArm(kind) ==
    CASE kind = "TimedOut" -> "retry"
      [] kind = "BrokenPipe" -> "reconnect"
      [] OTHER -> "panic"

\* handle_serial_error up to its return, its panic or the open of the
\* reconnect it calls.
MainHandle ==
    /\ pc = "handle" /\ fault = ""
    /\ LET arm == HandlerArm(err)
           h == [m |-> cur, kind |-> err, before |-> port[cur],
                 reconnects |-> 0, done |-> FALSE]
       IN  CASE arm = "retry" ->
                  /\ handled' = [h EXCEPT !.done = TRUE]
                  /\ pc' = "draw"
                  /\ UNCHANGED <<portVars, fault>>
             [] arm = "reconnect" ->
                  /\ ReconnectClose(cur)
                  /\ handled' = [h EXCEPT !.reconnects = 1]
                  /\ pc' = "reconnecting"
                  /\ UNCHANGED fault
             [] arm = "panic" ->
                  /\ handled' = h
                  /\ fault' = "unknown_error"
                  /\ UNCHANGED <<portVars, pc>>
    /\ UNCHANGED <<bitmapVars, cur, col, err, written, call, lastExec>>

\* The rest of handle_serial_error after a broken pipe: the open inside
\* reconnect, the message when it failed, the pause.
MainReconnected ==
    /\ pc = "reconnecting" /\ fault = ""
    /\ \E opened \in BOOLEAN : ReconnectOpen(cur, opened)
    /\ handled' = [handled EXCEPT !.done = TRUE]
    /\ pc' = "draw"
    /\ UNCHANGED <<bitmapVars, cur, col, err, written, call, lastExec, fault>>

NextMain ==
    \/ MainStartup
    \/ MainDraw
    \/ MainSend
    \/ MainHandle
    \/ MainReconnected

SpecMain == InitMain /\ [][NextMain]_vars

\* ------------------------------------------------- framebuffer properties

\* bit p of a Bitmap's data, p = y + x * DISPLAY_HEIGHT
BitAt(data, p) == BitOf(data[(p \div 8) + 1], p % 8)

InBounds(x, y) == x < DISPLAY_WIDTH /\ y < DISPLAY_HEIGHT

LastIs(obj, op) == last.obj = obj /\ last.op = op

\* C6: Bitmap8::draw_point with x < WIDTH and y < HEIGHT returns Ok, sets
\* data()[x*HEIGHT + y] to value and changes no other byte; with x >= WIDTH
\* or y >= HEIGHT it returns an error and leaves the buffer as it was.
\* Bitmap::draw_point out of bounds also returns an error and leaves its
\* buffer as it was.
C6_DrawPointBounds ==
    /\ LastIs("Bitmap8", "draw_point") =>
         IF InBounds(last.x, last.y)
         THEN /\ last.ok
              /\ Len(image) = Len(last.pre)
              /\ \A i \in 0..(Len(image) - 1) :
                    image[i + 1] = IF i = last.x * DISPLAY_HEIGHT + last.y
                                   THEN last.v ELSE last.pre[i + 1]
         ELSE ~last.ok /\ image = last.pre
    /\ (LastIs("Bitmap", "draw_point") /\ ~InBounds(last.x, last.y)) =>
         ~last.ok /\ bitmap = last.pre

\* C6's case: an in-bounds greyscale draw_point that changed a byte which is
\* not the first of the buffer.
C6_Witness ==
    /\ LastIs("Bitmap8", "draw_point")
    /\ InBounds(last.x, last.y)
    /\ last.x > 0
    /\ image # last.pre

\* The last two calls were draw_point(x, y, true) and draw_point(x, y, false)
\* on the Bitmap, in bounds.
SetThenClear ==
    /\ prev.obj = "Bitmap" /\ prev.op = "draw_point" /\ prev.b
    /\ LastIs("Bitmap", "draw_point") /\ ~last.b
    /\ prev.x = last.x /\ prev.y = last.y
    /\ InBounds(last.x, last.y)

OtherBitsKept ==
    \A p \in 0..(8 * DRAW_COMMAND_LENGTH - 1) :
        p # last.y + last.x * DISPLAY_HEIGHT => BitAt(bitmap, p) = BitAt(prev.pre, p)

\* C7 as stated: set then clear restores the bit's original value, whatever
\* it was, and keeps every other bit.
C7_RestoresOriginal ==
    SetThenClear =>
        /\ BitAt(bitmap, last.y + last.x * DISPLAY_HEIGHT)
             = BitAt(prev.pre, last.y + last.x * DISPLAY_HEIGHT)
        /\ OtherBitsKept

\* C7 as amended: draw_point(x, y, true) then draw_point(x, y, false) leaves
\* the bit at y + x*HEIGHT clear, which is its original value only if it was
\* clear before, and leaves every other bit of the buffer unchanged.
C7_SetThenClearClears ==
    SetThenClear =>
        /\ last.ok /\ prev.ok
        /\ BitAt(bitmap, last.y + last.x * DISPLAY_HEIGHT) = 0
        /\ OtherBitsKept
        /\ (BitAt(prev.pre, last.y + last.x * DISPLAY_HEIGHT) = 0
              => bitmap = prev.pre)

\* C7's case: the pair of calls on a bit that was set, in a byte with
\* another bit set.
C7_Witness ==
    /\ SetThenClear
    /\ BitAt(prev.pre, last.y + last.x * DISPLAY_HEIGHT) = 1
    /\ bitmap # Zeros(DRAW_COMMAND_LENGTH)
    /\ bitmap # prev.pre

Between(a, lo, hi) == (lo <= a /\ a <= hi) \/ (hi <= a /\ a <= lo)

\* C8: with in-range corners draw_box(x1, y1, x2, y2, v) sets exactly the
\* cells of the inclusive rectangle spanned by the corners to v, keeps every
\* other cell, and gives the same buffer for all four orderings of the
\* corners.
C8_DrawBoxRectangle ==
    (LastIs("Bitmap8", "draw_box") /\ InBounds(last.x, last.y)
                                   /\ InBounds(last.x2, last.y2)) =>
        /\ last.ok
        /\ Len(image) = Len(last.pre)
        /\ \A x \in 0..(DISPLAY_WIDTH - 1), y \in 0..(DISPLAY_HEIGHT - 1) :
              image[x * DISPLAY_HEIGHT + y + 1] =
                 IF Between(x, last.x, last.x2) /\ Between(y, last.y, last.y2)
                 THEN last.v ELSE last.pre[x * DISPLAY_HEIGHT + y + 1]
        /\ Bitmap8DrawBox(last.pre, last.x2, last.y, last.x, last.y2, last.v).data
             = image
        /\ Bitmap8DrawBox(last.pre, last.x, last.y2, last.x2, last.y, last.v).data
             = image
        /\ Bitmap8DrawBox(last.pre, last.x2, last.y2, last.x, last.y, last.v).data
             = image

\* C8's case: a box given by its right and lower corner first, which changed
\* the buffer and left part of it alone.
C8_Witness ==
    /\ LastIs("Bitmap8", "draw_box")
    /\ InBounds(last.x, last.y) /\ InBounds(last.x2, last.y2)
    /\ last.x > last.x2 /\ last.y > last.y2
    /\ image # last.pre
    /\ image # Bitmap8Fill(image, last.v)


\* --------------------------------------------------- transport properties

\* The opcodes of the protocol's table.
OpcodeTable ==
    [op \in {"Brightness", "Pattern", "Bootloader", "Sleep", "Animate",
             "Panic", "Draw", "StageColumnBuffer", "DrawBuffer", "Version"} |->
        CASE op = "Brightness" -> 0
          [] op = "Pattern" -> 1
          [] op = "Bootloader" -> 2
          [] op = "Sleep" -> 3
          [] op = "Animate" -> 4
          [] op = "Panic" -> 5
          [] op = "Draw" -> 6
          [] op = "StageColumnBuffer" -> 7
          [] op = "DrawBuffer" -> 8
          [] op = "Version" -> 32]

PatternTable ==
    [q \in PatternNames |->
        CASE q = "Percentage" -> 0
          [] q = "Gradient" -> 1
          [] q = "DoubleGradient" -> 2
          [] q = "DisplayLotus" -> 3
          [] q = "ZigZag" -> 4
          [] q = "FullBrightness" -> 5
          [] q = "DisplayPanic" -> 6
          [] q = "DisplayLotus2" -> 7]

\* Byte i of a frame, counted from 0 as the protocol's table counts.
Byte(frame, i) == frame[i + 1]

\* An execute call is the caller's last call.
Executed == call = "execute" /\ lastExec.m # "none"

\* The frame is 42 bytes: the header, cmd's opcode, cmd's payload.
FrameOf(frame, cmd) ==
    /\ Len(frame) = 42
    /\ Byte(frame, 0) = 50
    /\ Byte(frame, 1) = 172
    /\ Byte(frame, 2) = OpcodeTable[cmd.op]
    /\ cmd.op = "Brightness" => Byte(frame, 3) = cmd.level
    /\ cmd.op = "Sleep" => Byte(frame, 3) = IF cmd.flag THEN 1 ELSE 0
    /\ cmd.op = "Pattern" =>
          /\ Byte(frame, 3) = PatternTable[cmd.pattern]
          /\ Byte(frame, 4) = IF cmd.pattern = "Percentage" THEN cmd.value
                              ELSE 0
    /\ cmd.op = "Draw" =>
          \A i \in 0..(DRAW_COMMAND_LENGTH - 1) :
              Byte(frame, 3 + i) = cmd.data[i + 1]

\* C1 as stated: every execute call, whatever the command and its payload,
\* hands the port exactly one write, of a frame laid out as the table says.
C1_AlwaysOneFrame ==
    Executed => /\ Len(written) = 1
                /\ FrameOf(written[1].frame, lastExec.cmd)

\* The execute calls that panic instead of writing.
PanicsBeforeWrite(cmd, p) ==
    \/ cmd.op = "StageColumnBuffer" /\ cmd.index > DISPLAY_WIDTH
    \/ cmd.op = "StageColumnBuffer" /\ Len(cmd.data) # DISPLAY_HEIGHT
    \/ p = None

\* C1 as amended: execute panics without writing when the command is a
\* StageColumnBuffer with an index above WIDTH or a slice that is not HEIGHT
\* bytes long, or when the handle is absent (after a failed reconnect); in
\* every other case, for every variant and payload, it hands the port
\* exactly one write, of a 42-byte frame with the header, the variant's
\* opcode at byte 2 and the payload from byte 3 as the table lays it out,
\* and returns what the write returned.
C1_OneFrameUnlessPanic ==
    Executed =>
        IF PanicsBeforeWrite(lastExec.cmd, lastExec.port)
        THEN /\ lastExec.outcome = "panic"
             /\ written = <<>>
             /\ fault # ""
        ELSE /\ lastExec.outcome = "ret"
             /\ Len(written) = 1
             /\ FrameOf(written[1].frame, lastExec.cmd)
             /\ written[1].ok = lastExec.ret.ok

\* C1's case: a Pattern command with a percentage was executed and written.
C1_Witness ==
    /\ Executed
    /\ lastExec.cmd.op = "Pattern" /\ lastExec.cmd.pattern = "Percentage"
    /\ lastExec.cmd.value = 57
    /\ Len(written) = 1
    /\ lastExec.ret = Ok(MAX_COMMAND_LENGTH)

\* C2 as stated: outside a reconnect call the handle is present.
C2_HandlePresentAtRest ==
    pc # "reconnecting" => \A m \in Matrices : port[m] # None

\* A StageColumnBuffer command that execute packed and wrote.
StageWritten ==
    /\ Executed
    /\ lastExec.cmd.op = "StageColumnBuffer"
    /\ lastExec.outcome = "ret"
    /\ Len(written) = 1

\* C9 as stated, bytes counted from 0 as in the rest of the protocol: byte 3
\* is 0x07, byte 4 the column index, and the column data follows from byte 5.
C9_StageAtByte3 ==
    StageWritten =>
        /\ Byte(written[1].frame, 3) = 7
        /\ Byte(written[1].frame, 4) = lastExec.cmd.index
        /\ \A i \in 0..(DISPLAY_HEIGHT - 1) :
              Byte(written[1].frame, 5 + i) = lastExec.cmd.data[i + 1]

\* C9 as amended: the frame written for StageColumnBuffer(c, [b0..b33]) has
\* 0x07 at byte 2, the column index c at byte 3 and b0..b33 at bytes 4..37,
\* in order; bytes 38..41 are zero.
C9_StageAtByte2 ==
    StageWritten =>
        /\ Len(written[1].frame) = 42
        /\ Byte(written[1].frame, 2) = 7
        /\ Byte(written[1].frame, 3) = lastExec.cmd.index
        /\ \A i \in 0..(DISPLAY_HEIGHT - 1) :
              Byte(written[1].frame, 4 + i) = lastExec.cmd.data[i + 1]
        /\ \A i \in 38..41 : Byte(written[1].frame, i) = 0

\* C9's case: StageColumnBuffer(3, slice) with a slice that holds several
\* values was written.
C9_Witness ==
    /\ StageWritten
    /\ lastExec.cmd.index = 3
    /\ Cardinality({lastExec.cmd.data[i] : i \in 1..DISPLAY_HEIGHT}) > 2

\* C10 as stated: a StageColumnBuffer frame is written only for a column
\* index below WIDTH; any other index panics and writes nothing.
C10_ColumnIndexInRange ==
    (Executed /\ lastExec.cmd.op = "StageColumnBuffer") =>
        IF lastExec.cmd.index < DISPLAY_WIDTH
        THEN \A i \in 1..Len(written) :
                Byte(written[i].frame, 3) < DISPLAY_WIDTH
        ELSE lastExec.outcome = "panic" /\ written = <<>>

\* C3 as stated: an execute of the loop on a transport whose reconnect
\* failed (its handle is absent) returns a result, and the process goes on.
C3_RetryAfterFailedReconnect ==
    (lastExec.m # "none" /\ lastExec.port = None) =>
        lastExec.outcome = "ret" /\ fault = ""

\* C4: handle_serial_error calls reconnect once when the error is a broken
\* pipe and not at all when it is a timeout; after a timeout the transport
\* holds the same open handle as before.
C4_ReconnectOnlyOnBrokenPipe ==
    /\ handled.done =>
          /\ handled.kind \in {"TimedOut", "BrokenPipe"}
          /\ handled.kind = "BrokenPipe" => handled.reconnects = 1
          /\ handled.kind = "TimedOut" =>
                /\ handled.reconnects = 0
                /\ handled.before # None
                /\ port[handled.m] = handled.before
    /\ pc = "reconnecting" =>
          handled.kind = "BrokenPipe" /\ handled.reconnects = 1
    /\ (pc = "handle" /\ err = "TimedOut") => port[cur] = lastExec.port

\* C4's case: a timeout was handled on a transport that an earlier broken
\* pipe had made reconnect.
C4_Witness ==
    /\ handled.done
    /\ handled.kind = "TimedOut"
    /\ port[handled.m] = Some(2)

\* C5: in a display_bitmap call the k-th frame written is StageColumnBuffer
\* for column k - 1 with that column's HEIGHT bytes of the framebuffer, the
\* frame after the last column is DrawBuffer, and a frame is written only
\* if every execute before it returned Ok: no DrawBuffer follows a partly
\* staged image.
C5_StageThenDraw ==
    call = "display_bitmap" =>
        /\ Len(written) <= DISPLAY_WIDTH + 1
        /\ \A k \in 1..Len(written) :
              /\ k < Len(written) => written[k].ok
              /\ k <= DISPLAY_WIDTH =>
                    /\ Byte(written[k].frame, 2) = 7
                    /\ Byte(written[k].frame, 3) = k - 1
                    /\ \A i \in 0..(DISPLAY_HEIGHT - 1) :
                          Byte(written[k].frame, 4 + i)
                             = image[(k - 1) * DISPLAY_HEIGHT + i + 1]
              /\ k = DISPLAY_WIDTH + 1 => Byte(written[k].frame, 2) = 8
        /\ (pc = "handle" \/ pc = "reconnecting") =>
              Len(written) > 0 /\ ~written[Len(written)].ok
        /\ pc = "send" => Len(written) = col

\* C5's case: all columns of an image with bars were staged and DrawBuffer
\* was written.
C5_Witness ==
    /\ call = "display_bitmap"
    /\ Len(written) = DISPLAY_WIDTH + 1
    /\ written[DISPLAY_WIDTH + 1].ok
    /\ \E i \in 1..Len(image) : image[i] = 20

=============================================================================
